---- MODULE Spec2Model ----
(***************************************************************************)
(* Model of program.py: the JTAG transaction codec jtag_command driving an *)
(* FT232R in synchronous bit-bang mode, and the ATmega162 flash programming *)
(* sequences program_elf, program_fuses (with poll_fuse_write_complete) and  *)
(* read_fuses_locks built on it.                                            *)
(*                                                                          *)
(* Python indices are 0-based, TLA+ sequences 1-based: a Python index k is  *)
(* element k + 1 of the sequence that models the list.                      *)
(***************************************************************************)
EXTENDS Integers, Sequences, FiniteSets

VARIABLES
    op,         \* top-level caller: a function of program.py, or "jtag_command"
                \* for one direct call of jtag_command
    program,    \* program_elf: the bytes of the .text section
    verify,     \* program_elf: the verify argument
    pc,         \* position of the caller between two jtag_command calls
    offset,     \* program_elf: the loop variable of the page loops
    read,       \* program_elf: the local "read" of the verify loop
    err,        \* exception that ended the run, "none" if none
    errOffset,  \* offset formatted into the verification error message
    log,        \* the jtag_command calls issued so far: (instruction, data)
    cphase,     \* jtag_command: "idle" (not in a call) or "write" (in the chunk loop)
    stream,     \* jtag_command: the local list "stream"
    retindex,   \* jtag_command: the local "retindex"
    woffset,    \* jtag_command: the loop variable of the chunk loop
    ret,        \* jtag_command: the bytes read back so far (the list "read", joined)
    result,     \* the bytearray returned by the last completed jtag_command
    flushes,    \* transport: dev.flush() calls made by the current jtag_command
    sentLen,    \* transport: bytes handed to dev.write by the current jtag_command
    maxChunk,   \* transport: longest chunk handed to dev.write by the current call
    devkind,    \* transport: what the device answers during the current call
    corrupt,    \* device: flash byte address that reads back wrong, -1 if none
    filler,     \* device: what the flash reads back past the end of the image
    fuses,      \* program_fuses: the fuses argument, [isint, int]
    extended_fuses, \* program_fuses: the extended_fuses argument, [isint, int]
    polls,      \* poll_fuse_write_complete: jtag_command calls made by the running poll
    locals,     \* read_fuses_locks: extended, high, low, lock, as far as assigned
    retval,     \* read_fuses_locks: the tuple returned, <<>> before it returns
    hung,       \* device: it never sets the fuse-write status bit
    busy,       \* device: polls it answers with the status bit clear before setting it
    otherbits,  \* device: the level of every bit it shifts out that carries no data
    devfuses,   \* device: its fuse and lock bytes, [ext, high, low, lock]
    devword     \* device: the 15 bits it shifts out of PROG_COMMANDS in the current call

\* what a run is started with and never changes
inputs == <<op, program, verify, fuses, extended_fuses, hung, otherbits, devfuses>>

vars == <<op, program, verify, pc, offset, read, err, errOffset, log, cphase,
          stream, retindex, woffset, ret, result, flushes, sentLen, maxChunk,
          devkind, corrupt, filler, fuses, extended_fuses, polls, locals, retval,
          hung, busy, otherbits, devfuses, devword>>

(***************************************************************************)
(* Bounds of the model.                                                     *)
(***************************************************************************)
MaxPages == 5       \* images span at most this many flash pages
MaxPayloadLen == 2  \* direct calls pass byte strings of at most this length
MaxShort == 1       \* dev.write returns at most this many bytes short
MaxBusy == 1        \* a device that is not hung sets the status bit after at most
                    \* this many polls answered with it clear
MaxPolls == MaxBusy + 2  \* a poll loop is followed for at most this many polls

(***************************************************************************)
(* Signal lines and sizes (program.py:16-19, 34, 81, 117).                  *)
(***************************************************************************)
TMS == 16
TDI == 4
TDO == 8
TCK == 32
IR_LENGTH == 4
CHUNK_SIZE == 256
PAGE_BYTES == 128

\* (instruction register value, number of bits in selected data register)
AVR_JTAG ==
    [ IDCODE        |-> [ir |-> 1,  nbits |-> 32],
      PROG_ENABLE   |-> [ir |-> 4,  nbits |-> 16],
      PROG_COMMANDS |-> [ir |-> 5,  nbits |-> 15],
      PROG_PAGELOAD |-> [ir |-> 6,  nbits |-> 1024],
      PROG_PAGEREAD |-> [ir |-> 7,  nbits |-> 1032],
      AVR_RESET     |-> [ir |-> 12, nbits |-> 1],
      BYPASS        |-> [ir |-> 15, nbits |-> 1] ]

Instructions == DOMAIN AVR_JTAG

\* a member of another Enum whose value has the same shape
OTHER_ENUM == [ EXTEST |-> [ir |-> 0, nbits |-> 8] ]

\* the check left out: anything passes for a member
IsAnything(instruction) == TRUE

\* isinstance(instruction, AVR_JTAG)
IsMember(instruction) == instruction \in Instructions

\* instruction.value
ValueOf(instruction) ==
    IF instruction \in Instructions THEN AVR_JTAG[instruction] ELSE OTHER_ENUM[instruction]

(***************************************************************************)
(* Integer helpers: Python's ceil(a/8), min, and the bit operators.         *)
(***************************************************************************)
Min(a, b) == IF a < b THEN a ELSE b

CeilDiv8(n) == (n + 7) \div 8

\* (x >> k) & 1
BitOf(x, k) == (x \div (2 ^ k)) % 2

\* x | y for 16-bit operands
RECURSIVE BitOr(_, _)
BitOr(x, y) ==
    IF x = 0 THEN y
    ELSE IF y = 0 THEN x
    ELSE (IF x % 2 = 1 \/ y % 2 = 1 THEN 1 ELSE 0) + 2 * BitOr(x \div 2, y \div 2)

\* x & y for 16-bit operands
RECURSIVE BitAnd(_, _)
BitAnd(x, y) ==
    IF x = 0 \/ y = 0 THEN 0
    ELSE (IF x % 2 = 1 /\ y % 2 = 1 THEN 1 ELSE 0) + 2 * BitAnd(x \div 2, y \div 2)

\* Python's s[a:b] for 0 <= a <= b
Slice(s, a, b) == SubSeq(s, a + 1, Min(b, Len(s)))

(***************************************************************************)
(* jtag_command: the payload (program.py:31-32).  A payload is a record     *)
(* [isint, int, bytes]: an int (bytes empty) or a byte string (int 0).      *)
(***************************************************************************)
IntPayload(v) == [isint |-> TRUE, int |-> v, bytes |-> <<>>]

BytesPayload(b) == [isint |-> FALSE, int |-> 0, bytes |-> b]

\* int.to_bytes(len, 'little') raises OverflowError unless v < 256^len.
\* Model integers stay below 2^31, so every v fits in 4 bytes or more.
Fits(v, len) == len >= 4 \/ v < 256 ^ len

IntToBytes(v, len) ==
    [k \in 1..len |-> IF k <= 4 THEN (v \div (256 ^ (k - 1))) % 256 ELSE 0]

Overflows(data, nbits) == data.isint /\ ~Fits(data.int, CeilDiv8(nbits))

ToBytes(data, nbits) ==
    IF data.isint THEN IntToBytes(data.int, CeilDiv8(nbits)) ELSE data.bytes

(***************************************************************************)
(* jtag_command: building the stream (program.py:33-77).                    *)
(***************************************************************************)
\* clock_in appending the byte with TCK raised first
CellClockFirst(bits) == <<bits + TCK, bits>>

\* clock_in appends the line state, then the same with TCK raised
Cell(bits) == <<bits, bits + TCK>>

\* clock_in returning the index of the byte it appended last
ClockInReturnLast(s) == Len(s) - 1

\* clock_in returns len(stream)
ClockInReturn(s) == Len(s)

\* a loop of clock_in calls, one per element of bitsSeq
ClockInAll(s, bitsSeq) ==
    s \o [k \in 1..(2 * Len(bitsSeq)) |-> Cell(bitsSeq[(k + 1) \div 2])[2 - (k % 2)]]

\* MarkLast with the second assignment forgotten
MarkLastPreOnly(s) == [s EXCEPT ![Len(s) - 1] = BitOr(@, TMS)]

\* stream[-2] |= TMS; stream[-1] |= TMS
MarkLast(s) ==
    [s EXCEPT ![Len(s) - 1] = BitOr(@, TMS), ![Len(s)] = BitOr(@, TMS)]

TimesTMS(tmsSeq) == [k \in DOMAIN tmsSeq |-> tmsSeq[k] * TMS]

InitialStream == <<0>>

IdleCells == <<0, 0>>

TmsToShiftIR == <<1, 1, 0, 0>>

TmsToShiftDR == <<1, 0, 1, 0, 0>>

TmsToIdle == <<1, 0>>

\* the closing idle clock left out
NoClosingIdle == <<>>

ClosingIdle == <<0>>

\* (irvalue & 1) * TDI; irvalue >>= 1
IrBits(irvalue) == [k \in 1..IR_LENGTH |-> BitOf(irvalue, k - 1) * TDI]

DataBit(data, bit) ==
    LET byte == bit \div 8
    IN  IF byte < Len(data) THEN TDI * BitOf(data[byte + 1], bit % 8) ELSE 0

DataBits(data, nbits) == [k \in 1..nbits |-> DataBit(data, k - 1)]

\* the stream when the data-register loop starts (program.py:33-56)
StreamToShiftDR(irvalue) ==
    LET idle   == ClockInAll(InitialStream, IdleCells)
        tmsIR  == ClockInAll(idle, TimesTMS(TmsToShiftIR))
        shftIR == MarkLast(ClockInAll(tmsIR, IrBits(irvalue)))
    IN  ClockInAll(shftIR, TimesTMS(TmsToShiftDR))

\* retindex: what clock_in returned for bit 0 (program.py:68-69)
RetIndex(irvalue, data) ==
    ClockInReturn(ClockInAll(StreamToShiftDR(irvalue), <<DataBit(data, 0)>>))

\* the whole stream (program.py:33-77)
BuildStream(irvalue, nbits, data) ==
    LET shftDR == MarkLast(ClockInAll(StreamToShiftDR(irvalue), DataBits(data, nbits)))
        toIdle == ClockInAll(shftDR, TimesTMS(TmsToIdle))
    IN  ClockInAll(toIdle, ClosingIdle)

(***************************************************************************)
(* jtag_command: decoding the response (program.py:80, 86-89).              *)
(***************************************************************************)
\* bool(ret[retindex + 2 * bit] & TDO); TDO is a single bit
DecodedBit(r, ri, bit) == (r[ri + 2 * bit + 1] \div TDO) % 2

\* ret[retindex + 2 * bit] raises IndexError for some bit < nbits
DecodeFails(r, ri, nbits) == ri + 2 * (nbits - 1) >= Len(r)

Decode(r, ri, nbits) ==
    [j \in 1..CeilDiv8(nbits) |->
        LET b(k) == IF 8 * (j - 1) + k < nbits
                    THEN DecodedBit(r, ri, 8 * (j - 1) + k) * (2 ^ k)
                    ELSE 0
        IN  b(0) + b(1) + b(2) + b(3) + b(4) + b(5) + b(6) + b(7)]

(***************************************************************************)
(* The device side: the TAP controller the stream drives (the states named  *)
(* in the comments of program.py:41-76) and the bytes the FT232R reads back. *)
(***************************************************************************)
TapStates ==
    { "Test-Logic-Reset", "Run-Test/Idle",
      "Select-DR-Scan", "Capture-DR", "Shift-DR", "Exit1-DR", "Pause-DR",
      "Exit2-DR", "Update-DR",
      "Select-IR-Scan", "Capture-IR", "Shift-IR", "Exit1-IR", "Pause-IR",
      "Exit2-IR", "Update-IR" }

\* the state after a rising TCK edge that samples TMS = tms
TapNext(s, tms) ==
    CASE s = "Test-Logic-Reset" -> IF tms = 1 THEN "Test-Logic-Reset" ELSE "Run-Test/Idle"
      [] s = "Run-Test/Idle"    -> IF tms = 1 THEN "Select-DR-Scan" ELSE "Run-Test/Idle"
      [] s = "Select-DR-Scan"   -> IF tms = 1 THEN "Select-IR-Scan" ELSE "Capture-DR"
      [] s = "Capture-DR"       -> IF tms = 1 THEN "Exit1-DR" ELSE "Shift-DR"
      [] s = "Shift-DR"         -> IF tms = 1 THEN "Exit1-DR" ELSE "Shift-DR"
      [] s = "Exit1-DR"         -> IF tms = 1 THEN "Update-DR" ELSE "Pause-DR"
      [] s = "Pause-DR"         -> IF tms = 1 THEN "Exit2-DR" ELSE "Pause-DR"
      [] s = "Exit2-DR"         -> IF tms = 1 THEN "Update-DR" ELSE "Shift-DR"
      [] s = "Update-DR"        -> IF tms = 1 THEN "Select-DR-Scan" ELSE "Run-Test/Idle"
      [] s = "Select-IR-Scan"   -> IF tms = 1 THEN "Test-Logic-Reset" ELSE "Capture-IR"
      [] s = "Capture-IR"       -> IF tms = 1 THEN "Exit1-IR" ELSE "Shift-IR"
      [] s = "Shift-IR"         -> IF tms = 1 THEN "Exit1-IR" ELSE "Shift-IR"
      [] s = "Exit1-IR"         -> IF tms = 1 THEN "Update-IR" ELSE "Pause-IR"
      [] s = "Pause-IR"         -> IF tms = 1 THEN "Exit2-IR" ELSE "Pause-IR"
      [] s = "Exit2-IR"         -> IF tms = 1 THEN "Update-IR" ELSE "Shift-IR"
      [] s = "Update-IR"        -> IF tms = 1 THEN "Select-DR-Scan" ELSE "Run-Test/Idle"

\* byte k of the output stream s raises TCK (the line is low before the stream)
RisingEdge(s, k) == (s[k] \div TCK) % 2 = 1 /\ (k = 1 \/ (s[k - 1] \div TCK) % 2 = 0)

\* the TMS line as output byte k of s drives it
TmsLine(s, k) == (s[k] \div TMS) % 2

\* the TMS values sampled at the rising TCK edges of bytes lo..hi of s, in order
RECURSIVE EdgeTms(_, _, _)
EdgeTms(s, lo, hi) ==
    IF lo > hi THEN <<>>
    ELSE IF lo = hi THEN (IF RisingEdge(s, lo) THEN <<TmsLine(s, lo)>> ELSE <<>>)
    ELSE LET mid == (lo + hi) \div 2
         IN  EdgeTms(s, lo, mid) \o EdgeTms(s, mid + 1, hi)

\* the TAP states after each of the edges lo..hi of tms, starting in state s0
RECURSIVE TapAfter(_, _, _, _)
TapAfter(s0, tms, lo, hi) ==
    IF lo > hi THEN <<>>
    ELSE IF lo = hi THEN <<TapNext(s0, tms[lo])>>
    ELSE LET mid  == (lo + hi) \div 2
             left == TapAfter(s0, tms, lo, mid)
         IN  left \o TapAfter(left[Len(left)], tms, mid + 1, hi)

\* the TAP states at each rising edge of the stream s (before the edge acts),
\* followed by the state after the last edge
TapTrace(s0, s) ==
    LET tms == EdgeTms(s, 1, Len(s))
    IN  <<s0>> \o TapAfter(s0, tms, 1, Len(tms))

\* The flash as the device holds it when it is read back: the image, then
\* filler, with the byte at address corrupt (if any) off by one.
FlashByte(a) ==
    LET orig == IF a < Len(program) THEN program[a + 1] ELSE filler
    IN  IF a = corrupt THEN (orig + 1) % 256 ELSE orig

\* the byte address the device was given by the two address loads before a page read
DeviceAddress ==
    LET n == Len(log)
    IN  IF n >= 3 /\ log[n - 2].data.int \div 256 = 7 /\ log[n - 1].data.int \div 256 = 3
        THEN 2 * (256 * (log[n - 2].data.int % 256) + (log[n - 1].data.int % 256))
        ELSE 0

\* bit i the device shifts out of the data register during PROG_PAGEREAD:
\* eight bits to be ignored, then the page, least significant bit first
PageReadBit(i) ==
    IF i < 8 THEN 1 ELSE BitOf(FlashByte(DeviceAddress + (i - 8) \div 8), (i - 8) % 8)

\* The word the device shifts out of PROG_COMMANDS when it is polled after a
\* fuse write: the status bit is bit 9 of the 15, bit 1 of the second byte
\* returned.
StatusWord(set) == (IF set THEN 512 ELSE 0) + otherbits * (32767 - 512)

\* The byte the device shifts out of PROG_COMMANDS, as the low 8 of the 15
\* bits, in the transaction that carries a fuse or lock read opcode.
FuseReadByte(opcode) ==
    CASE opcode = 15872 -> devfuses.ext       \* 0x3e00
      [] opcode = 12800 -> devfuses.high      \* 0x3200
      [] opcode = 13824 -> devfuses.low       \* 0x3600
      [] opcode = 14080 -> devfuses.lock      \* 0x3700
      [] OTHER          -> 0

FuseReadWord(opcode) == FuseReadByte(opcode) + otherbits * 32512

DevKinds == {"post", "pre", "flash"}

\* A direct call is answered by any kind; PROG_PAGEREAD alone by the flash.
\* program_elf ignores every result but that of PROG_PAGEREAD, which the
\* flash answers (with the wrong byte and the filler Init chose).
\* program_fuses ignores every result but those of its polls; a poll and
\* every call of read_fuses_locks is answered with a word.
DevKindsFor(caller, instruction, polling) ==
    IF polling \/ caller = "read_fuses_locks" THEN {"word"}
    ELSE IF instruction = "PROG_PAGEREAD"
    THEN (IF caller = "jtag_command" THEN DevKinds ELSE {"flash"})
    ELSE (IF caller = "jtag_command" THEN {"post", "pre"} ELSE {"post"})

\* Response byte j (a Python index) of the current call.  In synchronous
\* bit-bang mode byte j is sampled just before output byte j is driven.
\*   post: TDO high only at the indices of post-edge (TCK high) output bytes,
\*         every other input bit low
\*   pre:  TDO high only at the indices of pre-edge (TCK low) output bytes,
\*         every other input bit high
\*   flash: the device answers PROG_PAGEREAD; TDO changes on the falling edge,
\*          so data bit i shows from the sample before the post-edge byte of
\*          cell i through the sample before the pre-edge byte of cell i + 1;
\*          first is the index of the pre-edge byte of data cell 0
\*   word: the device shifts devword out of the data register, timed as flash
DeviceByte(kind, first, j) ==
    CASE kind = "post"  -> IF j > 0 /\ j % 2 = 0 THEN TDO ELSE 0
      [] kind = "pre"   -> IF j % 2 = 1 THEN 255 ELSE 255 - TDO
      [] kind = "flash" -> IF j > first THEN TDO * PageReadBit((j - first - 1) \div 2) ELSE 0
      [] kind = "word"  -> IF j > first THEN TDO * BitOf(devword, (j - first - 1) \div 2) ELSE 0

\* dev.read(count): the next count response bytes, the first at index base
DeviceRead(kind, first, base, count) ==
    [k \in 1..count |-> DeviceByte(kind, first, base + k - 1)]

\* the byte counts dev.write may return for a chunk of length len
WriteReturns(len) == {len - d : d \in 0..Min(MaxShort, len)}

(***************************************************************************)
(* program_elf (program.py:101-142): the calls it makes, in order.          *)
(***************************************************************************)
Call(instruction, data) == [instr |-> instruction, data |-> data]

Command(opcode) == Call("PROG_COMMANDS", IntPayload(opcode))

\* the second and third erase opcodes exchanged
EraseOpcodesExchanged == <<9088, 13184, 12672, 13184>>

\* Chip Erase: 0x2380, 0x3180, 0x3380, 0x3380
EraseOpcodes == <<9088, 12672, 13184, 13184>>

\* Write Flash Page: 0x3700, 0x3500, 0x3700, 0x3700
WritePulse == <<14080, 13568, 14080, 14080>>

\* the two exit opcodes exchanged
ExitOpcodesExchanged == <<13056, 8960>>

\* Exit Programming Mode: 0x2300, 0x3300
ExitOpcodes == <<8960, 13056>>

\* the byte offset taken for the word address
ByteAddress(off) == off

\* address = offset >> 1
WordAddress(off) == off \div 2

\* 0x0700 | (address>>8) & 0xff
LoadAddressHigh(address) == BitOr(1792, BitAnd(address \div 256, 255))

\* 0x0300 | address & 0xff
LoadAddressLow(address) == BitOr(768, BitAnd(address, 255))

\* program[offset:offset+PAGE_BYTES]
Page(off) == Slice(program, off, off + PAGE_BYTES)

\* the call program_elf makes at position p with loop variable off
ElfCall(p, off) ==
    CASE p = "reset"      -> Call("AVR_RESET", IntPayload(1))
      [] p = "enable"     -> Call("PROG_ENABLE", IntPayload(41840))    \* 0xA370
      [] p = "erase1"     -> Command(EraseOpcodes[1])
      [] p = "erase2"     -> Command(EraseOpcodes[2])
      [] p = "erase3"     -> Command(EraseOpcodes[3])
      [] p = "erase4"     -> Command(EraseOpcodes[4])
      [] p = "enterwrite" -> Command(8976)                             \* 0x2310
      [] p = "w_high"     -> Command(LoadAddressHigh(WordAddress(off)))
      [] p = "w_low"      -> Command(LoadAddressLow(WordAddress(off)))
      [] p = "w_load"     -> Call("PROG_PAGELOAD", BytesPayload(Page(off)))
      [] p = "w_pulse1"   -> Command(WritePulse[1])
      [] p = "w_pulse2"   -> Command(WritePulse[2])
      [] p = "w_pulse3"   -> Command(WritePulse[3])
      [] p = "w_pulse4"   -> Command(WritePulse[4])
      [] p = "enterread"  -> Command(8962)                             \* 0x2302
      [] p = "r_high"     -> Command(LoadAddressHigh(WordAddress(off)))
      [] p = "r_low"      -> Command(LoadAddressLow(WordAddress(off)))
      [] p = "r_read"     -> Call("PROG_PAGEREAD", IntPayload(0))
      [] p = "exit1"      -> Command(ExitOpcodes[1])
      [] p = "exit2"      -> Command(ExitOpcodes[2])
      [] p = "disable"    -> Call("PROG_ENABLE", IntPayload(0))
      [] p = "release"    -> Call("AVR_RESET", IntPayload(0))

\* the response compared as returned, nothing dropped
DropNothing(bytes) == bytes

\* jtag_command(AVR_JTAG.PROG_PAGEREAD, 0)[1:]
DropFirst(bytes) == Tail(bytes)

\* the comparison left out: no page read back fails
MismatchIgnored(rd, off) == FALSE

\* the comparison without the truncation of read
MismatchUntruncated(rd, off) == rd # Page(off)

\* the comparison with read truncated to len(program)
MismatchImageLength(rd, off) == Slice(rd, 0, Len(program)) # Page(off)

\* read[:len(program)-offset] != program[offset:offset+PAGE_BYTES]
Mismatch(rd, off) == Slice(rd, 0, Len(program) - off) # Page(off)

\* where program_elf goes when a page loop ends or is empty
AfterWriteLoop == IF verify THEN "enterread" ELSE "exit1"

\* the position and loop variable after the call at position p returned;
\* rd is the page just read when p = "r_read"
ElfAfter(p, off, rd) ==
    CASE p = "reset"      -> <<"enable", off>>
      [] p = "enable"     -> <<"erase1", off>>
      [] p = "erase1"     -> <<"erase2", off>>
      [] p = "erase2"     -> <<"erase3", off>>
      [] p = "erase3"     -> <<"erase4", off>>
      [] p = "erase4"     -> <<"enterwrite", off>>
      [] p = "enterwrite" -> IF 0 < Len(program) THEN <<"w_high", 0>>
                             ELSE <<AfterWriteLoop, off>>
      [] p = "w_high"     -> <<"w_low", off>>
      [] p = "w_low"      -> <<"w_load", off>>
      [] p = "w_load"     -> <<"w_pulse1", off>>
      [] p = "w_pulse1"   -> <<"w_pulse2", off>>
      [] p = "w_pulse2"   -> <<"w_pulse3", off>>
      [] p = "w_pulse3"   -> <<"w_pulse4", off>>
      [] p = "w_pulse4"   -> IF off + PAGE_BYTES < Len(program)
                             THEN <<"w_high", off + PAGE_BYTES>>
                             ELSE <<AfterWriteLoop, off>>
      [] p = "enterread"  -> IF 0 < Len(program) THEN <<"r_high", 0>>
                             ELSE <<"exit1", off>>
      [] p = "r_high"     -> <<"r_low", off>>
      [] p = "r_low"      -> <<"r_read", off>>
      [] p = "r_read"     -> IF Mismatch(rd, off) THEN <<"failed", off>>
                             ELSE IF off + PAGE_BYTES < Len(program)
                             THEN <<"r_high", off + PAGE_BYTES>>
                             ELSE <<"exit1", off>>
      [] p = "exit1"      -> <<"exit2", off>>
      [] p = "exit2"      -> <<"disable", off>>
      [] p = "disable"    -> <<"release", off>>
      [] p = "release"    -> <<"done", off>>

(***************************************************************************)
(* poll_fuse_write_complete (program.py:144-147).                           *)
(***************************************************************************)
\* the positions at which the caller is inside poll_fuse_write_complete
PollPcs == {"poll", "f_poll_ext", "f_poll_high", "f_poll_low"}

\* the test made on the first byte returned
PollDoneFirstByte(bytes) == BitAnd(bytes[1], 2) # 0

\* the test left out: the loop ends after one poll
PollDoneAlways(bytes) == TRUE

\* if jtag_command(AVR_JTAG.PROG_COMMANDS, 0x3700)[1] & 2: break
PollDone(bytes) == BitAnd(bytes[2], 2) # 0

\* the call the poll loop makes
PollCall == Command(14080)                                             \* 0x3700

(***************************************************************************)
(* program_fuses (program.py:148-171): the calls it makes, in order.        *)
(***************************************************************************)
\* a fuse argument: an int, or a value of another type
FuseValue(v) == [isint |-> TRUE, int |-> v]

NotAnInt == [isint |-> FALSE, int |-> 0]

\* Write Fuse Extended Byte: 0x3b00, 0x3900, 0x3b00, 0x3b00
FusePulseExt == <<15104, 14592, 15104, 15104>>

\* Write Fuse High Byte: 0x3700, 0x3500, 0x3700, 0x3700
FusePulseHigh == <<14080, 13568, 14080, 14080>>

\* the pulse of program.py:167-170: 0x3300, 0x3100, 0x3300, 0x3300
FusePulseLow == <<13056, 12544, 13056, 13056>>

\* x & 0xff (Python's & on an int of either sign)
LowEight(x) == x % 256

\* the high byte taken without the shift
HighFuseByteUnshifted(f) == LowEight(f)

\* (fuses >> 8) & 0xff
HighFuseByte(f) == LowEight(f \div 256)

\* 0x1300 | byte
LoadDataLowByte(byte) == BitOr(4864, byte)

\* program_fuses raises before the call it would make at position p:
\* isinstance(fuses, int) fails on entry; extended_fuses & 0xff raises
\* TypeError when extended_fuses is no int
FusesRaises(p) ==
    \/ p = "f_reset" /\ ~fuses.isint
    \/ p = "f_load_ext" /\ ~extended_fuses.isint

\* the call program_fuses makes at position p
FusesCall(p) ==
    CASE p = "f_reset"     -> Call("AVR_RESET", IntPayload(1))
      [] p = "f_enable"    -> Call("PROG_ENABLE", IntPayload(41840))   \* 0xA370
      [] p = "f_enter"     -> Command(9024)                            \* 0x2340
      [] p = "f_load_ext"  -> Command(LoadDataLowByte(LowEight(extended_fuses.int)))
      [] p = "f_ext1"      -> Command(FusePulseExt[1])
      [] p = "f_ext2"      -> Command(FusePulseExt[2])
      [] p = "f_ext3"      -> Command(FusePulseExt[3])
      [] p = "f_ext4"      -> Command(FusePulseExt[4])
      [] p = "f_poll_ext"  -> PollCall
      [] p = "f_load_high" -> Command(LoadDataLowByte(HighFuseByte(fuses.int)))
      [] p = "f_high1"     -> Command(FusePulseHigh[1])
      [] p = "f_high2"     -> Command(FusePulseHigh[2])
      [] p = "f_high3"     -> Command(FusePulseHigh[3])
      [] p = "f_high4"     -> Command(FusePulseHigh[4])
      [] p = "f_poll_high" -> PollCall
      [] p = "f_load_low"  -> Command(LoadDataLowByte(LowEight(fuses.int)))
      [] p = "f_low1"      -> Command(FusePulseLow[1])
      [] p = "f_low2"      -> Command(FusePulseLow[2])
      [] p = "f_low3"      -> Command(FusePulseLow[3])
      [] p = "f_low4"      -> Command(FusePulseLow[4])
      [] p = "f_poll_low"  -> PollCall

\* the position after the call at position p returned bytes
FusesAfter(p, bytes) ==
    CASE p = "f_reset"     -> "f_enable"
      [] p = "f_enable"    -> "f_enter"
      [] p = "f_enter"     -> "f_load_ext"
      [] p = "f_load_ext"  -> "f_ext1"
      [] p = "f_ext1"      -> "f_ext2"
      [] p = "f_ext2"      -> "f_ext3"
      [] p = "f_ext3"      -> "f_ext4"
      [] p = "f_ext4"      -> "f_poll_ext"
      [] p = "f_poll_ext"  -> IF PollDone(bytes) THEN "f_load_high" ELSE p
      [] p = "f_load_high" -> "f_high1"
      [] p = "f_high1"     -> "f_high2"
      [] p = "f_high2"     -> "f_high3"
      [] p = "f_high3"     -> "f_high4"
      [] p = "f_high4"     -> "f_poll_high"
      [] p = "f_poll_high" -> IF PollDone(bytes) THEN "f_load_low" ELSE p
      [] p = "f_load_low"  -> "f_low1"
      [] p = "f_low1"      -> "f_low2"
      [] p = "f_low2"      -> "f_low3"
      [] p = "f_low3"      -> "f_low4"
      [] p = "f_low4"      -> "f_poll_low"
      [] p = "f_poll_low"  -> IF PollDone(bytes) THEN "done" ELSE p

(***************************************************************************)
(* read_fuses_locks (program.py:172-181).                                   *)
(***************************************************************************)
\* the call read_fuses_locks makes at position p
LocksCall(p) ==
    CASE p = "l_reset"  -> Call("AVR_RESET", IntPayload(1))
      [] p = "l_enable" -> Call("PROG_ENABLE", IntPayload(41840))      \* 0xA370
      [] p = "l_enter"  -> Command(8964)                               \* 0x2304
      [] p = "l_arm"    -> Command(14848)                              \* 0x3a00
      [] p = "l_ext"    -> Command(15872)                              \* 0x3e00
      [] p = "l_high"   -> Command(12800)                              \* 0x3200
      [] p = "l_low"    -> Command(13824)                              \* 0x3600
      [] p = "l_lock"   -> Command(14080)                              \* 0x3700

LocksAfter(p) ==
    CASE p = "l_reset"  -> "l_enable"
      [] p = "l_enable" -> "l_enter"
      [] p = "l_enter"  -> "l_arm"
      [] p = "l_arm"    -> "l_ext"
      [] p = "l_ext"    -> "l_high"
      [] p = "l_high"   -> "l_low"
      [] p = "l_low"    -> "l_lock"
      [] p = "l_lock"   -> "done"

\* the positions whose call's result is kept: jtag_command(...)[0]
LocksKeeps(p) == p \in {"l_ext", "l_high", "l_low", "l_lock"}

\* the tuple with high and low exchanged
ReturnTupleExchanged(l) == <<l[1], BitOr(l[3] * 256, l[2]), l[4]>>

\* return extended, high << 8 | low, lock
ReturnTuple(l) == <<l[1], BitOr(l[2] * 256, l[3]), l[4]>>

(***************************************************************************)
(* The inputs the model draws from.                                         *)
(***************************************************************************)
Image(len) == [i \in 1..len |-> (((i - 1) * 37 + 11) % 255) + 1]

\* no image, a short page, a full page, two pages, and the first and the last
\* image that needs MaxPages pages
ImageLens ==
    {0, 3, PAGE_BYTES, PAGE_BYTES + 3, PAGE_BYTES * (MaxPages - 1) + 3, PAGE_BYTES * MaxPages}

\* What the flash holds when it is read back after programming an image of
\* len bytes: the image with zeros after it; or one byte of the image wrong;
\* or, past the end of an image that ends inside a page, 0xFF (the erased
\* state) or one wrong byte.
FlashScenarios(len) ==
    {[corrupt |-> -1, filler |-> 0]}
    \cup {[corrupt |-> a, filler |-> 0] : a \in {a \in {1, PAGE_BYTES, len - 1} : a >= 0 /\ a < len}}
    \cup (IF len % PAGE_BYTES # 0
          THEN {[corrupt |-> -1, filler |-> 255], [corrupt |-> len, filler |-> 0]}
          ELSE {})

PayloadInts == {0, 1, 256, 41840, 65536}

PayloadByteValues == {90, 255}

PayloadByteStrings == UNION {[1..n -> PayloadByteValues] : n \in 0..MaxPayloadLen}

Payloads ==
    {IntPayload(v) : v \in PayloadInts} \cup {BytesPayload(b) : b \in PayloadByteStrings}

\* (fuses, extended_fuses): both in range (0x99E2, 0xFF); fuses above 16 bits
\* (0x12345); fuses negative and extended_fuses above 8 bits (-1, 0x1FF);
\* either no int
FuseArgs ==
    { <<FuseValue(39394), FuseValue(255)>>,
      <<FuseValue(74565), FuseValue(255)>>,
      <<FuseValue(-1), FuseValue(511)>>,
      <<NotAnInt, FuseValue(255)>>,
      <<FuseValue(39394), NotAnInt>> }

\* the fuse and lock bytes a device may hold
DeviceFuses ==
    { [ext |-> e, high |-> h, low |-> l, lock |-> k] :
        e \in {255, 1}, h \in {153, 2}, l \in {226, 153}, k \in {255, 60} }

\* the caller raises before it makes its next call
CallerRaises == op = "program_fuses" /\ FusesRaises(pc)

\* the calls the caller may make next
PendingCalls ==
    CASE op = "program_elf"              -> {ElfCall(pc, offset)}
      [] op = "program_fuses"            -> {FusesCall(pc)}
      [] op = "poll_fuse_write_complete" -> {PollCall}
      [] op = "read_fuses_locks"         -> {LocksCall(pc)}
      [] op = "jtag_command"             ->
            {Call(i, d) : i \in Instructions, d \in Payloads}
            \cup {Call(i, IntPayload(0)) : i \in DOMAIN OTHER_ENUM}

(***************************************************************************)
(* The state machine.                                                       *)
(***************************************************************************)
Callers ==
    {"program_elf", "jtag_command", "program_fuses", "poll_fuse_write_complete",
     "read_fuses_locks"}

\* where each caller starts
EntryPc(caller) ==
    CASE caller = "program_elf"              -> "reset"
      [] caller = "jtag_command"             -> "call"
      [] caller = "program_fuses"            -> "f_reset"
      [] caller = "poll_fuse_write_complete" -> "poll"
      [] caller = "read_fuses_locks"         -> "l_reset"

Init ==
    /\ op \in Callers
    /\ program \in (IF op = "program_elf" THEN {Image(len) : len \in ImageLens} ELSE {<<>>})
    /\ verify \in (IF op = "program_elf" THEN BOOLEAN ELSE {FALSE})
    /\ \E a \in (IF op = "program_fuses" THEN FuseArgs
                 ELSE {<<FuseValue(0), FuseValue(0)>>}) :
          fuses = a[1] /\ extended_fuses = a[2]
    /\ hung \in (IF op \in {"program_fuses", "poll_fuse_write_complete"}
                 THEN BOOLEAN ELSE {FALSE})
    /\ otherbits \in (IF op \in {"program_fuses", "poll_fuse_write_complete",
                                 "read_fuses_locks"}
                      THEN {0, 1} ELSE {0})
    /\ devfuses \in (IF op = "read_fuses_locks" THEN DeviceFuses
                     ELSE {[ext |-> 0, high |-> 0, low |-> 0, lock |-> 0]})
    /\ corrupt = -1
    /\ filler = 0
    /\ pc = EntryPc(op)
    /\ offset = 0
    /\ read = <<>>
    /\ err = "none"
    /\ errOffset = -1
    /\ log = <<>>
    /\ cphase = "idle"
    /\ stream = <<>>
    /\ retindex = 0
    /\ woffset = 0
    /\ ret = <<>>
    /\ result = <<>>
    /\ flushes = 0
    /\ sentLen = 0
    /\ maxChunk = 0
    /\ devkind = "post"
    /\ polls = 0
    /\ busy = 0
    /\ devword = 0
    /\ locals = <<>>
    /\ retval = <<>>

\* The caller runs on to its next call of jtag_command, or raises on the way;
\* jtag_command checks the instruction, converts the payload, builds the
\* stream and flushes the transport (program.py:27-82).  What the device will
\* answer in this call is settled here: what the flash will read back when
\* program_elf enters flash read, how long the device stays busy when a poll
\* loop makes its first call.
CallJtag ==
    /\ cphase = "idle"
    /\ pc \notin {"done", "failed"}
    /\ pc \in PollPcs => polls < MaxPolls
    /\ IF CallerRaises
       THEN /\ err' = "TypeError"
            /\ pc' = "failed"
            /\ UNCHANGED <<log, cphase, stream, retindex, woffset, ret, flushes,
                           sentLen, maxChunk, devkind, polls, busy, devword>>
       ELSE \E c \in PendingCalls :
            /\ log' = Append(log, c)
            /\ IF ~IsMember(c.instr)
               THEN /\ err' = "ValueError"
                    /\ pc' = "failed"
                    /\ UNCHANGED <<cphase, stream, retindex, woffset, ret, flushes,
                                   sentLen, maxChunk, devkind, polls, busy, devword>>
               ELSE LET nbits == ValueOf(c.instr).nbits
                        data  == ToBytes(c.data, nbits)
                    IN  IF Overflows(c.data, nbits)
                        THEN /\ err' = "OverflowError"
                             /\ pc' = "failed"
                             /\ UNCHANGED <<cphase, stream, retindex, woffset, ret,
                                            flushes, sentLen, maxChunk, devkind, polls,
                                            busy, devword>>
                        ELSE /\ stream' = BuildStream(ValueOf(c.instr).ir, nbits, data)
                             /\ retindex' = RetIndex(ValueOf(c.instr).ir, data)
                             /\ flushes' = 1
                             /\ woffset' = 0
                             /\ ret' = <<>>
                             /\ sentLen' = 0
                             /\ maxChunk' = 0
                             /\ cphase' = "write"
                             /\ devkind' \in DevKindsFor(op, c.instr, pc \in PollPcs)
                             /\ polls' = (IF pc \in PollPcs THEN polls + 1 ELSE polls)
                             /\ busy' \in (IF pc \in PollPcs /\ polls = 0 /\ ~hung
                                           THEN 0..MaxBusy ELSE {busy})
                             /\ devword' =
                                   (IF pc \in PollPcs
                                    THEN StatusWord(~hung /\ polls' > busy')
                                    ELSE IF op = "read_fuses_locks"
                                    THEN FuseReadWord(c.data.int)
                                    ELSE devword)
                             /\ UNCHANGED <<err, pc>>
    /\ IF op = "program_elf" /\ pc = "enterread"
       THEN \E f \in FlashScenarios(Len(program)) :
               corrupt' = f.corrupt /\ filler' = f.filler
       ELSE UNCHANGED <<corrupt, filler>>
    /\ UNCHANGED <<inputs, offset, read, errOffset, result, locals, retval>>

\* One round of the chunk loop (program.py:83-85).
WriteChunk ==
    /\ cphase = "write"
    /\ woffset < Len(stream)
    /\ LET chunk == Slice(stream, woffset, woffset + CHUNK_SIZE)
           first == Len(StreamToShiftDR(ValueOf(log[Len(log)].instr).ir))
       IN  \E written \in WriteReturns(Len(chunk)) :
             /\ ret' = ret \o DeviceRead(devkind, first, Len(ret), written)
             /\ sentLen' = sentLen + Len(chunk)
             /\ maxChunk' = (IF Len(chunk) > maxChunk THEN Len(chunk) ELSE maxChunk)
    /\ woffset' = woffset + CHUNK_SIZE
    /\ UNCHANGED <<inputs, pc, offset, read, err, errOffset, log, cphase,
                   stream, retindex, result, flushes, devkind, corrupt, filler,
                   polls, locals, retval, busy, devword>>

\* The chunk loop is over: jtag_command decodes and returns (program.py:86-89),
\* and the caller runs on to its next call, its end or its error.
Return ==
    /\ cphase = "write"
    /\ woffset >= Len(stream)
    /\ cphase' = "idle"
    /\ LET nbits == ValueOf(log[Len(log)].instr).nbits
       IN  IF DecodeFails(ret, retindex, nbits)
           THEN /\ err' = "IndexError"
                /\ pc' = "failed"
                /\ UNCHANGED <<result, read, offset, errOffset, polls, locals, retval>>
           ELSE /\ result' = Decode(ret, retindex, nbits)
                /\ CASE op = "program_elf" ->
                          LET rd  == IF pc = "r_read" THEN DropFirst(result') ELSE read
                              nxt == ElfAfter(pc, offset, rd)
                          IN  /\ read' = rd
                              /\ pc' = nxt[1]
                              /\ offset' = nxt[2]
                              /\ err' = (IF nxt[1] = "failed" THEN "VerificationFailure"
                                         ELSE err)
                              /\ errOffset' = (IF nxt[1] = "failed" THEN offset
                                               ELSE errOffset)
                              /\ UNCHANGED <<polls, locals, retval>>
                     [] op = "program_fuses" ->
                          /\ pc' = FusesAfter(pc, result')
                          /\ polls' = (IF pc' = pc THEN polls ELSE 0)
                          /\ UNCHANGED <<read, offset, err, errOffset, locals, retval>>
                     [] op = "poll_fuse_write_complete" ->
                          /\ pc' = (IF PollDone(result') THEN "done" ELSE pc)
                          /\ polls' = (IF pc' = pc THEN polls ELSE 0)
                          /\ UNCHANGED <<read, offset, err, errOffset, locals, retval>>
                     [] op = "read_fuses_locks" ->
                          /\ pc' = LocksAfter(pc)
                          /\ locals' = (IF LocksKeeps(pc) THEN Append(locals, result'[1])
                                        ELSE locals)
                          /\ retval' = (IF pc' = "done" THEN ReturnTuple(locals')
                                        ELSE retval)
                          /\ UNCHANGED <<read, offset, err, errOffset, polls>>
                     [] op = "jtag_command" ->
                          /\ pc' = "done"
                          /\ UNCHANGED <<read, offset, err, errOffset, polls, locals,
                                         retval>>
    /\ UNCHANGED <<inputs, log, stream, retindex, woffset, ret, flushes,
                   sentLen, maxChunk, devkind, corrupt, filler, busy, devword>>

Next == CallJtag \/ WriteChunk \/ Return

Spec == Init /\ [][Next]_vars

\* The fuse functions alone, run to the end: the program is sequential, so a
\* step that can be taken is taken.
FuseInit == Init /\ op \in {"program_fuses", "poll_fuse_write_complete"}

FuseSpec == FuseInit /\ [][Next]_vars /\ WF_vars(Next)

(***************************************************************************)
(* Properties.                                                              *)
(***************************************************************************)
\* the current call and its register width
CurCall == log[Len(log)]

CurBits == AVR_JTAG[CurCall.instr].nbits

\* jtag_command has just built its stream and flushed; nothing is written yet
JustBuilt == cphase = "write" /\ woffset = 0

TapStarts == {"Test-Logic-Reset", "Run-Test/Idle"}

\* C1: the TMS values of the cells of one call, applied one per rising TCK
\* edge to a TAP starting in Run-Test/Idle or Test-Logic-Reset, find the TAP
\* in Shift-IR at exactly the 4 instruction cells (cells 7..10), in Shift-DR
\* at exactly the n data cells (cells 16..15+n), and leave it in
\* Run-Test/Idle after the last of the 18+n cells.
C1_TapWalk ==
    JustBuilt =>
        \A s0 \in TapStarts :
            LET t == TapTrace(s0, stream)
                n == CurBits
            IN  /\ Len(t) = 18 + n + 1
                /\ \A c \in 1..(18 + n) :
                      /\ (t[c] = "Shift-IR") <=> (c \in 7..10)
                      /\ (t[c] = "Shift-DR") <=> (c \in 16..(15 + n))
                /\ t[18 + n + 1] = "Run-Test/Idle"

\* a one-bit register (AVR_RESET) shifted as a later call of a program_elf run
C1_Witness == JustBuilt /\ CurBits = 1 /\ op = "program_elf" /\ Len(log) > 2

\* The layout the properties refer to.  Cells are numbered from 1; data cell
\* i (i = 0 for the first bit shifted) is cell 16 + i, after 2 idle cells,
\* 4 TMS cells, 4 instruction cells and 5 TMS cells.
DataCell(i) == 16 + i

\* Python indices, in the stream and so in the response, of the two bytes of
\* cell c, and of the byte after the cell; the stream opens with one byte
\* that belongs to no cell.
PreEdgeIndex(c) == 2 * c - 1

PostEdgeIndex(c) == 2 * c

AfterEdgeIndex(c) == 2 * c + 1

\* the TDO bit of the response byte at Python index j
TdoAt(r, j) == (r[j + 1] \div 8) % 2

\* the TDI bit of the output byte at Python index j
TdiAt(s, j) == (s[j + 1] \div 4) % 2

\* jtag_command went through the transport and is back in its caller
\* (returned or raised while decoding)
BackFromTransport ==
    cphase = "idle" /\ log # <<>> /\ err \notin {"OverflowError", "ValueError"}

\* r is the bytes that pack the n bits Bit(0), Bit(1), ..., least significant
\* bit first, every remaining bit 0
Packs(r, n, Bit(_)) ==
    /\ Len(r) = (n + 7) \div 8
    /\ \A i \in 0..(8 * Len(r) - 1) :
          BitOf(r[(i \div 8) + 1], i % 8) = (IF i < n THEN Bit(i) ELSE 0)

\* C2 as stated: when the response carries TDO = p[i] in the byte at the
\* stream position of the post-edge byte of data cell i, jtag_command returns
\* the bytes that pack p.
C2_RoundTripAtPostEdge ==
    (BackFromTransport /\ Len(ret) > PostEdgeIndex(DataCell(CurBits - 1))) =>
        LET p(i) == TdoAt(ret, PostEdgeIndex(DataCell(i)))
        IN  err # "IndexError" /\ Packs(result, CurBits, p)

\* C2 as amended: when the response carries TDO = p[i] in the byte that
\* follows the stream position of the post-edge byte of data cell i (the
\* sample taken while that byte is on the lines), jtag_command raises nothing
\* and returns ceil(n/8) bytes that pack p, every remaining bit 0.
C2_RoundTripAfterPostEdge ==
    (BackFromTransport /\ Len(ret) > AfterEdgeIndex(DataCell(CurBits - 1))) =>
        LET p(i) == TdoAt(ret, AfterEdgeIndex(DataCell(i)))
        IN  err # "IndexError" /\ Packs(result, CurBits, p)

\* a 15-bit register read back as all ones from a response in which the bytes
\* at the post-edge positions carry TDO = 0
C2_Witness ==
    /\ BackFromTransport
    /\ CurBits = 15
    /\ devkind = "pre"
    /\ Len(ret) = Len(stream)
    /\ result = <<255, 127>>

\* C3 as stated: the stream of a call for a register of n bits is whole
\* 2-byte cells and nothing else, 2 * (18 + n) bytes.
C3_WholeCellsOnly == JustBuilt => Len(stream) = 2 * (18 + CurBits)

\* C3 as amended: the stream is one leading byte 0 followed by 18 + n whole
\* cells (the second byte of a cell is the first with TCK raised), so
\* 1 + 2 * (18 + n) bytes: 2 idle cells, 4 TMS cells, 4 instruction cells,
\* 5 TMS cells, n data cells and 3 closing cells.
C3_LeadingByteThenCells ==
    JustBuilt =>
        /\ Len(stream) = 1 + 2 * (18 + CurBits)
        /\ stream[1] = 0
        /\ \A c \in 1..(18 + CurBits) :
              /\ (stream[PreEdgeIndex(c) + 1] \div 32) % 2 = 0
              /\ stream[PostEdgeIndex(c) + 1] = stream[PreEdgeIndex(c) + 1] + 32
        /\ \A c \in 1..2 : stream[PreEdgeIndex(c) + 1] = 0
        /\ \A c \in 3..6 : stream[PreEdgeIndex(c) + 1] = 16 * <<1, 1, 0, 0>>[c - 2]
        /\ \A c \in 7..10 :
              stream[PreEdgeIndex(c) + 1] =
                  4 * BitOf(AVR_JTAG[CurCall.instr].ir, c - 7) + (IF c = 10 THEN 16 ELSE 0)
        /\ \A c \in 11..15 : stream[PreEdgeIndex(c) + 1] = 16 * <<1, 0, 1, 0, 0>>[c - 10]
        /\ \A c \in 16..(15 + CurBits) :
              (stream[PreEdgeIndex(c) + 1] \div 16) % 2 = (IF c = 15 + CurBits THEN 1 ELSE 0)
        /\ \A c \in (16 + CurBits)..(18 + CurBits) :
              stream[PreEdgeIndex(c) + 1] = 16 * <<1, 0, 0>>[c - 15 - CurBits]

\* the 2101-byte stream of a PROG_PAGEREAD call
C3_Witness == JustBuilt /\ CurCall.instr = "PROG_PAGEREAD" /\ Len(stream) = 2101

\* bit i of a payload: of byte i div 8 of a byte string, of the little-endian
\* bytes of an int (model ints have fewer than 31 bits)
PayloadBit(d, i) ==
    IF d.isint THEN (IF i < 31 THEN BitOf(d.int, i) ELSE 0)
    ELSE IF i \div 8 < Len(d.bytes) THEN BitOf(d.bytes[(i \div 8) + 1], i % 8)
    ELSE 0

\* C4 as stated: no payload makes jtag_command raise, and the TDI driven in
\* data cell i is bit i of the payload, 0 past its end.
C4_AnyPayloadShifted ==
    /\ err # "OverflowError"
    /\ JustBuilt =>
          \A i \in 0..(CurBits - 1) :
              TdiAt(stream, PreEdgeIndex(DataCell(i))) = PayloadBit(CurCall.data, i)

\* C4 without the ints that do not fit the register's bytes: the TDI half
\* of the claim, which the code meets.
C4_TdiOfAcceptedPayload ==
    JustBuilt =>
        \A i \in 0..(CurBits - 1) :
            /\ TdiAt(stream, PreEdgeIndex(DataCell(i))) = PayloadBit(CurCall.data, i)
            /\ TdiAt(stream, PostEdgeIndex(DataCell(i))) = PayloadBit(CurCall.data, i)

\* C5 as stated: whatever dev.write returns, one flush precedes the writes,
\* the whole stream is handed over in chunks of at most 256 bytes, and as many
\* bytes are read back as the stream holds.
C5_EqualLengthResponse ==
    (cphase = "write" /\ woffset >= Len(stream)) =>
        /\ flushes = 1
        /\ maxChunk <= 256
        /\ sentLen = Len(stream)
        /\ Len(ret) = Len(stream)

\* C5 without the response length: the half of the claim the code meets.
C5_WholeStreamHandedOver ==
    (cphase = "write" /\ woffset >= Len(stream)) =>
        /\ flushes = 1
        /\ maxChunk <= 256
        /\ sentLen = Len(stream)

\* positions in the log of the PROG_PAGELOAD and PROG_PAGEREAD calls
LoadIndices == {i \in DOMAIN log : log[i].instr = "PROG_PAGELOAD"}

ReadIndices == {i \in DOMAIN log : log[i].instr = "PROG_PAGEREAD"}

\* the byte offset of the page the call at log position i is for: pages are
\* taken in ascending order, 128 bytes each
PageOffsetAt(i, indices) == 128 * Cardinality({j \in indices : j < i})

\* bit k of the image, 0 past its end
ImageBit(k) ==
    IF k \div 8 < Len(program) THEN BitOf(program[(k \div 8) + 1], k % 8) ELSE 0

\* the write loop is over: flash read was entered or programming mode was left
WriteLoopOver == \E i \in DOMAIN log : log[i] \in {Command(8962), Command(8960)}

\* C6: program_elf issues ceil(L/128) PROG_PAGELOAD calls, for offsets 0, 128,
\* 256, ...; each follows PROG_COMMANDS(0x0700 | ((offset/2)>>8 & 0xFF)) and
\* PROG_COMMANDS(0x0300 | ((offset/2) & 0xFF)), shifts 1024 bits that are the
\* image's from that offset on and 0 past its end, and is followed by the
\* write pulse 0x3700, 0x3500, 0x3700, 0x3700.
C6_PageLoads ==
    op = "program_elf" =>
        /\ \A i \in LoadIndices :
              LET off == PageOffsetAt(i, LoadIndices)
              IN  /\ off < Len(program)
                  /\ i > 2
                  /\ log[i - 2] = Command(1792 + (((off \div 2) \div 256) % 256))
                  /\ log[i - 1] = Command(768 + ((off \div 2) % 256))
                  /\ \A j \in 1..4 :
                        Len(log) >= i + j =>
                            log[i + j] = Command(<<14080, 13568, 14080, 14080>>[j])
                  /\ (pc = "done" \/ WriteLoopOver) => Len(log) >= i + 4
                  /\ (JustBuilt /\ i = Len(log)) =>
                        /\ Len(stream) = 1 + 2 * (18 + 1024)
                        /\ \A b \in 0..1023 :
                              TdiAt(stream, PreEdgeIndex(DataCell(b))) = ImageBit(8 * off + b)
        /\ (pc = "done" \/ WriteLoopOver) =>
              Cardinality(LoadIndices) = (Len(program) + 127) \div 128

\* a finished run that wrote the five pages of a 515-byte image
C6_Witness ==
    op = "program_elf" /\ pc = "done" /\ Len(program) = 515 /\ Cardinality(LoadIndices) = 5

\* program_elf has just got the result of a PROG_PAGEREAD call and compared it
PageReadBack ==
    /\ op = "program_elf"
    /\ cphase = "idle"
    /\ log # <<>>
    /\ CurCall.instr = "PROG_PAGEREAD"
    /\ err # "IndexError"

\* the offset of the page just read back
ReadOffset == PageOffsetAt(Len(log), ReadIndices)

\* the 128 bytes PROG_PAGELOAD shifted for the page at off
WrittenPage(off) ==
    [k \in 1..128 |-> IF off + k <= Len(program) THEN program[off + k] ELSE 0]

\* the image offsets within the page just read where the read-back differs
DiffOffsets ==
    {a \in ReadOffset..(ReadOffset + 127) :
        a < Len(program) /\ read[a - ReadOffset + 1] # program[a + 1]}

\* C7 as stated: read-back equal to the bytes written raises nothing; a
\* read-back that differs in exactly one byte, at image offset k, fails with
\* a verification error that reports offset k.
C7_ReportsByteOffset ==
    PageReadBack =>
        /\ (read = WrittenPage(ReadOffset)) => (err = "none" /\ pc # "failed")
        /\ \A k \in DiffOffsets :
              DiffOffsets = {k} =>
                  /\ pc = "failed"
                  /\ err = "VerificationFailure"
                  /\ errOffset = k

\* C7 as amended: read-back equal to the bytes written raises no verification
\* error; a read-back that differs in exactly one byte, at image offset k,
\* fails with a verification error that reports the offset of the page that
\* holds k, 128 * (k div 128).
C7_ReportsPageOffset ==
    PageReadBack =>
        /\ (read = WrittenPage(ReadOffset)) => (err = "none" /\ pc # "failed")
        /\ \A k \in DiffOffsets :
              DiffOffsets = {k} =>
                  /\ pc = "failed"
                  /\ err = "VerificationFailure"
                  /\ errOffset = 128 * (k \div 128)

\* byte 130 of a 131-byte image read back wrong: the failure reports 128
C7_Witness ==
    /\ PageReadBack
    /\ Len(program) = 131
    /\ DiffOffsets = {130}
    /\ pc = "failed"
    /\ errOffset = 128

\* bit i of the bytes the last jtag_command returned
ResultBit(i) == BitOf(result[(i \div 8) + 1], i % 8)

\* C8 as stated: the bytes compared pack bits 1..1024 of the 1032 bits
\* PROG_PAGEREAD returned.
C8_DropsFirstBit ==
    PageReadBack => LET b(i) == ResultBit(1 + i) IN Packs(read, 1024, b)

\* C8 as amended: the bytes compared pack bits 8..1031 of the 1032 bits
\* PROG_PAGEREAD returned: the first returned byte (8 bits) is discarded.
C8_DropsFirstByte ==
    PageReadBack => LET b(i) == ResultBit(8 + i) IN Packs(read, 1024, b)

\* a page read back from the flash: eight leading ones, then the image
C8_Witness ==
    /\ PageReadBack
    /\ Len(result) = 129
    /\ result[1] = 255
    /\ read[1] = program[1]
    /\ read[1] # 255

\* C9: for an image that ends inside a page, verification of the final page
\* fails exactly when one of the L mod 128 read-back bytes that correspond to
\* image bytes differs; the bytes read back past the end are not compared.
C9_FinalPageTruncated ==
    (PageReadBack /\ Len(program) % 128 # 0 /\ ReadOffset = 128 * (Len(program) \div 128)) =>
        ((pc = "failed" /\ err = "VerificationFailure") <=>
            \E k \in 1..(Len(program) % 128) : read[k] # program[ReadOffset + k])

\* the final page of a 131-byte image read back with 0xFF after the image's
\* three bytes, and accepted
C9_Witness ==
    /\ PageReadBack
    /\ Len(program) = 131
    /\ ReadOffset = 128
    /\ read[4] = 255
    /\ pc = "exit1"

\* C10: every program_elf run begins AVR_RESET(1), PROG_ENABLE(0xA370),
\* PROG_COMMANDS 0x2380, 0x3180, 0x3380, 0x3380 and only then 0x2310; no
\* address load, PROG_PAGELOAD or PROG_PAGEREAD comes before them.
C10_EraseFirst ==
    op = "program_elf" =>
        LET prelude == << Call("AVR_RESET", IntPayload(1)),
                          Call("PROG_ENABLE", IntPayload(41840)),
                          Call("PROG_COMMANDS", IntPayload(9088)),
                          Call("PROG_COMMANDS", IntPayload(12672)),
                          Call("PROG_COMMANDS", IntPayload(13184)),
                          Call("PROG_COMMANDS", IntPayload(13184)),
                          Call("PROG_COMMANDS", IntPayload(8976)) >>
        IN  /\ \A k \in 1..Min(Len(log), 7) : log[k] = prelude[k]
            /\ \A k \in DOMAIN log :
                  (\/ log[k].instr \in {"PROG_PAGELOAD", "PROG_PAGEREAD"}
                   \/ (log[k].instr = "PROG_COMMANDS" /\ log[k].data.int \div 256 \in {3, 7}))
                  => k > 7
            /\ pc = "done" => Len(log) >= 7

\* the first address load, issued as the eighth call
C10_Witness ==
    op = "program_elf" /\ Len(log) = 8 /\ log[8] = Call("PROG_COMMANDS", IntPayload(1792))

\* the four calls that leave programming mode: PROG_COMMANDS(0x2300),
\* PROG_COMMANDS(0x3300), PROG_ENABLE(0), AVR_RESET(0)
ExitSequence ==
    << Call("PROG_COMMANDS", IntPayload(8960)),
       Call("PROG_COMMANDS", IntPayload(13056)),
       Call("PROG_ENABLE", IntPayload(0)),
       Call("AVR_RESET", IntPayload(0)) >>

ExitCalls == {ExitSequence[k] : k \in 1..4}

\* positions in the log of the calls that leave programming mode
ExitIndices == {i \in DOMAIN log : log[i] \in ExitCalls}

\* C11: a program_elf run that returns (verify on or off, any image length,
\* 0 included) has made PROG_COMMANDS(0x2300), PROG_COMMANDS(0x3300),
\* PROG_ENABLE(0), AVR_RESET(0) as its last four calls, each of them exactly
\* once; a run returns unless it raised, and with verify off it never raises
\* a verification error.  In a run still on its way the four calls made so far
\* are the tail of the log, in that order.
C11_ExitSequenceLast ==
    op = "program_elf" =>
        /\ pc = "done" =>
              /\ err = "none"
              /\ Len(log) >= 11
              /\ SubSeq(log, Len(log) - 3, Len(log)) = ExitSequence
              /\ Cardinality(ExitIndices) = 4
        /\ \A i \in ExitIndices :
              LET k == Cardinality({j \in ExitIndices : j < i}) + 1
              IN  /\ k <= 4
                  /\ log[i] = ExitSequence[k]
                  /\ \A j \in i..Len(log) : j \in ExitIndices
        /\ pc = "failed" => err \in {"VerificationFailure", "IndexError"}
        /\ err = "VerificationFailure" => verify

\* a verified run for an empty image: twelve calls, the last four the exit
C11_Witness ==
    op = "program_elf" /\ pc = "done" /\ verify /\ program = <<>> /\ Len(log) = 12

\* C20: program_elf reads a page back only after flash read was entered, which
\* is after every page was loaded and its write pulse given; a page read back
\* that differs from the image ends the run with a verification error, and a
\* run ended by a verification error has that page read as its last call: it
\* is the first page that differs, no later page was read, none of
\* PROG_COMMANDS(0x2300), PROG_COMMANDS(0x3300), PROG_ENABLE(0), AVR_RESET(0)
\* was made, and AVR_RESET(1) and PROG_ENABLE(0xA370) were.
C20_AbortOnFirstMismatch ==
    op = "program_elf" =>
        /\ \A i \in DOMAIN log :
              (log[i] = Call("PROG_COMMANDS", IntPayload(8962)) \/ i \in ReadIndices) =>
                  /\ Cardinality({j \in LoadIndices : j < i}) = (Len(program) + 127) \div 128
                  /\ \A j \in LoadIndices : j + 4 < i
                  /\ \E j \in 1..i : log[j] = Call("PROG_COMMANDS", IntPayload(8962))
        /\ (PageReadBack /\ DiffOffsets # {}) =>
              (pc = "failed" /\ err = "VerificationFailure")
        /\ err = "VerificationFailure" =>
              /\ pc = "failed"
              /\ cphase = "idle"
              /\ CurCall.instr = "PROG_PAGEREAD"
              /\ DiffOffsets # {}
              /\ corrupt \in 0..(Len(program) - 1)
              /\ ReadOffset = 128 * (corrupt \div 128)
              /\ Cardinality(ReadIndices) = (corrupt \div 128) + 1
              /\ ExitIndices = {}
              /\ log[1] = Call("AVR_RESET", IntPayload(1))
              /\ log[2] = Call("PROG_ENABLE", IntPayload(41840))

\* the second of the five pages of a 515-byte image read back wrong: the run
\* ends there, after two page reads
C20_Witness ==
    /\ op = "program_elf"
    /\ err = "VerificationFailure"
    /\ Len(program) = 515
    /\ corrupt = 128
    /\ Cardinality(ReadIndices) = 2
    /\ Cardinality(LoadIndices) = 5

\* the lines a stream byte drives high, as a set of bit positions
BitsSet(b) == {k \in 0..7 : (b \div (2 ^ k)) % 2 = 1}

\* C18: in every stream jtag_command builds, the two bytes of each of the
\* 18 + n cells are a byte with TCK (bit 5) clear and the same byte with TCK
\* set; both bytes of the last instruction cell (cell 10) and of the last data
\* cell (cell 15 + n) have TMS (bit 4) set, and still differ in TCK alone; and
\* no byte of the stream has TDO (bit 3) or any bit other than TMS, TDI (bit
\* 2) and TCK set.
C18_CellsArePairs ==
    JustBuilt =>
        /\ \A c \in 1..(18 + CurBits) :
              LET pre  == stream[PreEdgeIndex(c) + 1]
                  post == stream[PostEdgeIndex(c) + 1]
              IN  /\ 5 \notin BitsSet(pre)
                  /\ BitsSet(post) = BitsSet(pre) \cup {5}
        /\ \A c \in {10, 15 + CurBits} :
              /\ 4 \in BitsSet(stream[PreEdgeIndex(c) + 1])
              /\ 4 \in BitsSet(stream[PostEdgeIndex(c) + 1])
        /\ \A k \in DOMAIN stream : BitsSet(stream[k]) \subseteq {2, 4, 5}

\* the last instruction cell of a call that shifts IR bit 3 = 1 (AVR_RESET,
\* 0xC) and the last data cell of a payload whose last bit is 1: TDI, TMS and
\* TCK together in the post-edge byte
C18_Witness ==
    /\ JustBuilt
    /\ CurCall.instr = "AVR_RESET"
    /\ stream[PostEdgeIndex(10) + 1] = 4 + 16 + 32
    /\ stream[PostEdgeIndex(16) + 1] = 4 + 16 + 32

\* C12 as stated: a program_fuses run that returns has taken the device out
\* of programming mode: PROG_ENABLE(0) and AVR_RESET(0) are its last calls.
C12_FusesDisableProgramming ==
    (op = "program_fuses" /\ pc = "done") =>
        /\ Len(log) >= 2
        /\ log[Len(log) - 1] = Call("PROG_ENABLE", IntPayload(0))
        /\ log[Len(log)] = Call("AVR_RESET", IntPayload(0))

\* What program_fuses does instead: no run of it, returned or not, makes
\* PROG_ENABLE(0) or AVR_RESET(0), and the last call of a run that returns is
\* the poll PROG_COMMANDS(0x3700) that found the status bit set.
C12_FusesLeaveProgrammingEnabled ==
    op = "program_fuses" =>
        /\ \A i \in DOMAIN log :
              log[i] \notin {Call("PROG_ENABLE", IntPayload(0)), Call("AVR_RESET", IntPayload(0))}
        /\ pc = "done" =>
              /\ log[1] = Call("AVR_RESET", IntPayload(1))
              /\ log[2] = Call("PROG_ENABLE", IntPayload(41840))
              /\ log[Len(log)] = Call("PROG_COMMANDS", IntPayload(14080))

\* fuses is an int in 0..0xFFFF and extended_fuses an int in 0..0xFF
ValidFuseArgs ==
    /\ fuses.isint /\ fuses.int \in 0..65535
    /\ extended_fuses.isint /\ extended_fuses.int \in 0..255

\* C13 as stated: with an argument that is no int or is out of range,
\* program_fuses makes no call of jtag_command and ends with a type or range
\* error.
C13_InvalidFusesRejected ==
    (op = "program_fuses" /\ ~ValidFuseArgs) =>
        /\ log = <<>>
        /\ pc \in {"f_reset", "failed"}
        /\ pc = "failed" => err \in {"TypeError", "ValueError"}

\* The part of C13 the code meets: a fuses argument that is no int is refused
\* with TypeError before any call, and every byte loaded is in 0..0xFF.
C13_NonIntFusesRejected ==
    op = "program_fuses" =>
        /\ ~fuses.isint => (log = <<>> /\ (pc = "failed" => err = "TypeError"))
        /\ \A i \in DOMAIN log :
              (log[i].instr = "PROG_COMMANDS" /\ log[i].data.int \div 256 = 19) =>
                  log[i].data.int - 4864 \in 0..255

\* positions in the log of the Load Data Low Byte calls, 0x1300 | byte
DataLoadIndices ==
    {i \in DOMAIN log : log[i].instr = "PROG_COMMANDS" /\ log[i].data.int \div 256 = 19}

\* the latest of them
LastDataLoad == CHOOSE i \in DataLoadIndices : \A j \in DataLoadIndices : j <= i

\* the status bit as the code reads it: bit 1 of the second byte returned
StatusSeen == BitOf(result[2], 1) = 1

PollsMade ==
    IF op = "poll_fuse_write_complete" THEN Len(log)
    ELSE IF DataLoadIndices = {} THEN 0
    ELSE IF Len(log) > LastDataLoad + 4 THEN Len(log) - (LastDataLoad + 4)
    ELSE 0

\* a poll loop has just returned to its caller
PollReturned ==
    /\ cphase = "idle"
    /\ \/ op = "poll_fuse_write_complete" /\ pc = "done"
       \/ op = "program_fuses" /\ pc \in {"f_load_high", "f_load_low", "done"}

\* C15: the device answers the polls of a loop with the status bit (bit 9 of
\* the 15 shifted out, bit 1 of byte 1 of the response) clear on polls 1..N-1
\* and set on poll N = busy + 1, whatever the other bits are; a poll that
\* returns the bit clear is followed by another poll, the loop returns after
\* exactly N calls, each of them PROG_COMMANDS(0x3700), and nothing else is
\* called in between.
C15_PollsUntilStatusSet ==
    op \in {"poll_fuse_write_complete", "program_fuses"} =>
        /\ (PollsMade > 0 /\ pc # "failed") =>
              /\ \A k \in 1..PollsMade :
                    log[Len(log) - k + 1] = Call("PROG_COMMANDS", IntPayload(14080))
              /\ BitOf(devword, 9) = (IF ~hung /\ PollsMade > busy THEN 1 ELSE 0)
              /\ cphase = "idle" =>
                    /\ result = <<devword % 256, devword \div 256>>
                    /\ (BitOf(devword, 9) = 0) => (pc \in PollPcs /\ ~PollReturned)
                    /\ (BitOf(devword, 9) = 1) => PollReturned
        /\ PollReturned => (~hung /\ PollsMade = busy + 1)
        /\ op = "poll_fuse_write_complete" => (err = "none" /\ pc \in {"poll", "done"})

\* a poll that returned after two calls against a device that answered the
\* first with every bit but the status bit set
C15_Witness ==
    /\ op = "poll_fuse_write_complete"
    /\ pc = "done"
    /\ otherbits = 1
    /\ busy = 1
    /\ Len(log) = 2
    /\ result = <<255, 127>>

\* the eight calls of read_fuses_locks
LocksSequence ==
    << Call("AVR_RESET", IntPayload(1)),
       Call("PROG_ENABLE", IntPayload(41840)),
       Call("PROG_COMMANDS", IntPayload(8964)),
       Call("PROG_COMMANDS", IntPayload(14848)),
       Call("PROG_COMMANDS", IntPayload(15872)),
       Call("PROG_COMMANDS", IntPayload(12800)),
       Call("PROG_COMMANDS", IntPayload(13824)),
       Call("PROG_COMMANDS", IntPayload(14080)) >>

\* C16: read_fuses_locks calls AVR_RESET(1), PROG_ENABLE(0xA370) and
\* PROG_COMMANDS 0x2304, 0x3a00, 0x3e00, 0x3200, 0x3600, 0x3700, in that order
\* and nothing else (so neither PROG_ENABLE(0) nor AVR_RESET(0)); the first
\* byte returned by each of the last four calls is the byte the device shifted
\* out in it (e, h, l, k), whatever the 7 bits above it; and it returns
\* (e, h * 256 + l, k).
C16_ReadFusesLocks ==
    op = "read_fuses_locks" =>
        /\ Len(log) <= 8
        /\ \A i \in DOMAIN log : log[i] = LocksSequence[i]
        /\ pc # "failed" /\ err = "none"
        /\ (cphase = "idle" /\ Len(log) \in 5..8) =>
              result[1] = <<devfuses.ext, devfuses.high, devfuses.low, devfuses.lock>>[Len(log) - 4]
        /\ pc # "done" => retval = <<>>
        /\ pc = "done" =>
              /\ Len(log) = 8
              /\ retval = <<devfuses.ext, devfuses.high * 256 + devfuses.low, devfuses.lock>>

\* the fuses 0x99E2, extended byte 0x01 and lock byte 0x3C read from a device
\* that shifts ones out above each byte
C16_Witness ==
    /\ op = "read_fuses_locks"
    /\ pc = "done"
    /\ otherbits = 1
    /\ retval = <<1, 39394, 60>>

\* C17: a call of jtag_command with an instruction that is no member of
\* AVR_JTAG raises ValueError and leaves the transport alone: no flush, no
\* write, no read, nothing built or returned; and a run ended by that error
\* has flushed, written and read nothing.
C17_InvalidInstructionRejected ==
    /\ [](err = "ValueError" =>
            /\ pc = "failed"
            /\ log[Len(log)].instr \notin DOMAIN AVR_JTAG
            /\ cphase = "idle"
            /\ flushes = 0 /\ sentLen = 0 /\ ret = <<>>)
    /\ [][(log' # log /\ log'[Len(log')].instr \notin DOMAIN AVR_JTAG) =>
            /\ err' = "ValueError"
            /\ pc' = "failed"
            /\ UNCHANGED <<cphase, flushes, sentLen, maxChunk, ret, woffset, stream,
                           retindex, result>>]_vars

\* jtag_command called with the member EXTEST of another Enum
C17_Witness ==
    /\ op = "jtag_command"
    /\ Len(log) = 1
    /\ log[1].instr = "EXTEST"
    /\ err = "ValueError"
    /\ flushes = 0

\* a run of the fuse functions is in a poll loop against a device that is hung
HungInPoll ==
    /\ hung
    /\ \/ op = "poll_fuse_write_complete"
       \/ op = "program_fuses" /\ Len(log) >= 9

\* C19: against a device that never sets the status bit the poll never
\* returns: once in the loop the run stays in it, every further call is
\* PROG_COMMANDS(0x3700), and (up to the number of polls followed here) another
\* poll is always pending; against a device that sets the bit after finitely
\* many polls every run of poll_fuse_write_complete and of program_fuses ends.
C19_PollEndsIffStatusSet ==
    /\ [](hung => pc # "done")
    /\ [](HungInPoll =>
            /\ pc \in PollPcs
            /\ err = "none"
            /\ BitOf(devword, 9) = 0
            /\ \A i \in DOMAIN log :
                  (op = "program_fuses" => i >= 9) =>
                      log[i] = Call("PROG_COMMANDS", IntPayload(14080))
            /\ (cphase = "idle" /\ polls < MaxPolls) => ENABLED CallJtag)
    /\ (~hung) ~> (pc \in {"done", "failed"})

\* program_fuses still polling a hung device after the extended byte's pulse,
\* at the last poll followed
C19_Witness ==
    /\ op = "program_fuses"
    /\ hung
    /\ pc = "f_poll_ext"
    /\ cphase = "idle"
    /\ Len(log) = 8 + MaxPolls

====
